---------------------------- MODULE Spec2Model ----------------------------
(***************************************************************************)
(* A model of the workout transcription service (src/app.py).              *)
(*                                                                         *)
(* A Python str is a sequence of one-character strings, so that split,     *)
(* strip, replace, isdigit and the substring tests are computed as Python  *)
(* computes them.  Four specifications share the variables:                *)
(*   SpecTable   transcribe_text_to_table, one step per line and pass      *)
(*   SpecHeader  extract_workout_title_and_date, one step per line         *)
(*   SpecExcel   create_excel, one step per document tuple                 *)
(*   Spec        the request handler index                                 *)
(***************************************************************************)
EXTENDS Integers, Sequences, FiniteSets, TLC

VARIABLES
    pc,             \* position in the function being executed
    text,           \* the transcription handed to the parsing functions
    lines,          \* text.split('\n')
    i,              \* index of the loop in progress (1-based)
    max_sets,       \* transcribe_text_to_table: max_sets
    data,           \* transcribe_text_to_table: data
    workout_title,  \* extract_workout_title_and_date: workout_title
    workout_date,   \* extract_workout_title_and_date: workout_date
    label,          \* extract_workout_title_and_date: the returned string
    dataframes,     \* the list of tuples handed to create_excel
    start_row,      \* create_excel: start_row
    worksheet,      \* create_excel: cells, merged ranges, column widths
    method,         \* index: request.method
    files,          \* index: request.files.getlist('files[]')
    ocr_calls,      \* number of client.text_detection calls made
    staged,         \* number of file.save calls that completed
    response        \* index: the returned response, or "none"

shared == <<pc, text, lines, i>>
tvars  == <<max_sets, data>>
hvars  == <<workout_title, workout_date, label>>
cvars  == <<dataframes, start_row, worksheet>>
ivars  == <<method, files, ocr_calls, staged, response>>
vars   == <<shared, tvars, hvars, cvars, ivars>>

(***************************************************************************)
(* Bounds of the model.                                                    *)
(***************************************************************************)
MaxTextLen == 4      \* length of the exhaustively generated transcriptions
MaxExampleLines == 3 \* lines of a transcription built from example lines
MaxDocs == 3         \* document tuples handed to create_excel
MaxFiles == 2        \* files of one upload

(***************************************************************************)
(* Python str operations.                                                  *)
(***************************************************************************)
Digits == {"0", "1", "2", "3", "4", "5", "6", "7", "8", "9"}

Whitespace == {" ", "\t", "\n", "\r", "\f"}

UpperLetters == <<"A","B","C","D","E","F","G","H","I","J","K","L","M",
                  "N","O","P","Q","R","S","T","U","V","W","X","Y","Z">>

LowerLetters == <<"a","b","c","d","e","f","g","h","i","j","k","l","m",
                  "n","o","p","q","r","s","t","u","v","w","x","y","z">>

Max(a, b) == IF a >= b THEN a ELSE b

\* c in s
Contains(s, c) == \E k \in 1..Len(s) : s[k] = c

\* pat in s, for a str pat
ContainsStr(s, pat) ==
    \E k \in 0..(Len(s) - Len(pat)) :
        \A j \in 1..Len(pat) : s[k + j] = pat[j]

\* s.replace(a, b) for one-character a and b
Replace(s, a, b) == [k \in 1..Len(s) |-> IF s[k] = a THEN b ELSE s[k]]

\* any(char.isdigit() for char in s)
AnyDigit(s) == \E k \in 1..Len(s) : s[k] \in Digits

\* s.isdigit(): non-empty and all digits
IsDigit(s) == Len(s) > 0 /\ \A k \in 1..Len(s) : s[k] \in Digits

LowerChar(c) ==
    IF \E k \in 1..26 : UpperLetters[k] = c
    THEN LowerLetters[CHOOSE k \in 1..26 : UpperLetters[k] = c]
    ELSE c

\* s.lower()
Lower(s) == [k \in 1..Len(s) |-> LowerChar(s[k])]

RECURSIVE LStrip(_)
LStrip(s) ==
    IF s = <<>> THEN s
    ELSE IF s[1] \in Whitespace THEN LStrip(Tail(s)) ELSE s

RECURSIVE RStrip(_)
RStrip(s) ==
    IF s = <<>> THEN s
    ELSE IF s[Len(s)] \in Whitespace THEN RStrip(SubSeq(s, 1, Len(s) - 1)) ELSE s

\* s.strip()
Strip(s) == RStrip(LStrip(s))

\* s.split(sepc) for a one-character separator: always at least one piece
RECURSIVE Split(_, _)
Split(s, sepc) ==
    IF ~Contains(s, sepc) THEN <<s>>
    ELSE LET k == CHOOSE k \in 1..Len(s) :
                      s[k] = sepc /\ \A j \in 1..(k - 1) : s[j] # sepc
         IN  <<SubSeq(s, 1, k - 1)>> \o Split(SubSeq(s, k + 1, Len(s)), sepc)

\* sep.join(pieces)
RECURSIVE Join(_, _)
Join(pieces, sepc) ==
    IF pieces = <<>> THEN <<>>
    ELSE IF Len(pieces) = 1 THEN pieces[1]
    ELSE pieces[1] \o <<sepc>> \o Join(Tail(pieces), sepc)

\* all sequences over S of length at most n
SeqsUpTo(S, n) == UNION {[1..k -> S] : k \in 0..n}

(***************************************************************************)
(* transcribe_text_to_table                                                *)
(***************************************************************************)
\* line.replace('.', ':')
Normalize(line) == Replace(line, ".", ":")

\* line.split(':') of the normalized line
Parts(line) == Split(Normalize(line), ":")

\* pass 1: '/' in line, and not len(parts) < 2
Pass1Qualifies(line) == Contains(Normalize(line), "/") /\ ~(Len(Parts(line)) < 2)

Pass2QualifiesNoSlash(line) == ~(Len(Parts(line)) < 2)

\* pass 2: the same two tests
Pass2Qualifies(line) == Contains(Normalize(line), "/") /\ ~(Len(Parts(line)) < 2)

\* [s.strip() for s in pieces if s.strip().isdigit() or s.strip() == '']
RECURSIVE KeepSets(_)
KeepSets(pieces) ==
    IF pieces = <<>> THEN <<>>
    ELSE LET s == Strip(pieces[1])
         IN  (IF IsDigit(s) \/ s = <<>> THEN <<s>> ELSE <<>>)
                 \o KeepSets(Tail(pieces))

\* parts[1].strip().split('/'), filtered
SetsOf(line) == KeepSets(Split(Strip(Parts(line)[2]), "/"))

PadNever(sets, n) == sets

\* while len(sets) < max_sets: sets.append('')
RECURSIVE Pad(_, _)
Pad(sets, n) == IF Len(sets) < n THEN Pad(Append(sets, <<>>), n) ELSE sets

\* parts[1].split('(')[1].split(')')[0] when '(' in parts[1], else ""
ExtraInfoOf(line) ==
    LET p == Parts(line)[2]
    IN  IF Contains(p, "(") THEN Split(Split(p, "(")[2], ")")[1] ELSE <<>>

\* exercise = parts[0].strip()
ExerciseOf(line) == Strip(Parts(line)[1])

\* row = [exercise] + sets; row.append(extra_info)
RowOf(line, n) == <<ExerciseOf(line)>> \o Pad(SetsOf(line), n) \o <<ExtraInfoOf(line)>>

\* the first loop as a whole
RECURSIVE MaxSetsOf(_)
MaxSetsOf(ls) ==
    IF ls = <<>> THEN 0
    ELSE LET rest == MaxSetsOf(SubSeq(ls, 1, Len(ls) - 1))
             line == ls[Len(ls)]
         IN  IF Pass1Qualifies(line) THEN Max(rest, Len(SetsOf(line))) ELSE rest

\* the second loop as a whole
RECURSIVE RowsOf(_, _)
RowsOf(ls, n) ==
    IF ls = <<>> THEN <<>>
    ELSE (IF Pass2Qualifies(ls[1]) THEN <<RowOf(ls[1], n)>> ELSE <<>>)
             \o RowsOf(Tail(ls), n)

\* transcribe_text_to_table(text) as called by index: (data, max_sets)
transcribe_text_to_table(t) ==
    LET ls == Split(t, "\n")
        n  == MaxSetsOf(ls)
    IN  <<RowsOf(ls, n), n>>


(***************************************************************************)
(* Transcriptions the table builder is run on: every text of at most       *)
(* MaxTextLen characters over TableAlphabet, and every text of at most     *)
(* MaxExampleLines lines drawn from TableExampleLines.                     *)
(***************************************************************************)
TableAlphabet == {"a", "1", ":", ".", "/", " ", "(", ")", "\n"}

BenchLine == <<"B","e","n","c","h",":"," ","1","0","/","1","2","/","1","5"," ","(","w","a","r","m","u","p",")">>
SquatLine == <<"S","q","u","a","t",":"," ","8","/","8">>
NumberedLine == <<"1","."," ","B","e","n","c","h",":"," ","1","0","/","1","2">>
DecimalLine == <<"B","e","n","c","h",":"," ","5","2",".","5","/","5","5">>
CurlLine == <<"C","u","r","l",":"," ","1","0","/","1","2","/","1","5">>
DipsLine == <<"D","i","p","s",":"," ","1","0","/","/","8">>
LegDayLine == <<"L","e","g"," ","D","a","y">>
FractionLine == <<"5","/","6">>
RestLine == <<"R","e","s","t",":"," ","9","0">>

TableExampleLines ==
    {BenchLine, SquatLine, NumberedLine, DecimalLine, CurlLine, DipsLine,
     LegDayLine, FractionLine, RestLine, <<>>}

TableTexts ==
    SeqsUpTo(TableAlphabet, MaxTextLen)
        \cup {Join(ls, "\n") : ls \in SeqsUpTo(TableExampleLines, MaxExampleLines) \ {<<>>}}

(***************************************************************************)
(* Values of the variables a specification does not use.                   *)
(***************************************************************************)
NoResponse == [status |-> 0, kind |-> "none", blocks |-> 0, error |-> "none"]

EmptySheet == [cells |-> <<>>, merged |-> {}, widths |-> <<>>]

IdleTable  == max_sets = 0 /\ data = <<>>
IdleHeader == workout_title = <<>> /\ workout_date = <<>> /\ label = <<>>
IdleExcel  == dataframes = <<>> /\ start_row = 1 /\ worksheet = EmptySheet
IdleIndex  == method = "POST" /\ files = <<>> /\ ocr_calls = 0 /\ staged = 0
                  /\ response = NoResponse

(***************************************************************************)
(* SpecTable: transcribe_text_to_table, line by line.                      *)
(***************************************************************************)
InitTable ==
    /\ text \in TableTexts
    /\ lines = Split(text, "\n")
    /\ pc = "pass1"
    /\ i = 1
    /\ IdleTable /\ IdleHeader /\ IdleExcel /\ IdleIndex

\* first loop, a line that is skipped
Pass1Skip ==
    /\ pc = "pass1" /\ i <= Len(lines)
    /\ ~Pass1Qualifies(lines[i])
    /\ i' = i + 1
    /\ UNCHANGED <<pc, text, lines, tvars, hvars, cvars, ivars>>

\* first loop, a line that is counted
Pass1Count ==
    /\ pc = "pass1" /\ i <= Len(lines)
    /\ Pass1Qualifies(lines[i])
    /\ max_sets' = Max(max_sets, Len(SetsOf(lines[i])))
    /\ i' = i + 1
    /\ UNCHANGED <<pc, text, lines, data, hvars, cvars, ivars>>

\* the first loop ends and the second starts
Pass2Start ==
    /\ pc = "pass1" /\ i > Len(lines)
    /\ pc' = "pass2"
    /\ i' = 1
    /\ UNCHANGED <<text, lines, tvars, hvars, cvars, ivars>>

\* second loop, a line that is skipped
Pass2Skip ==
    /\ pc = "pass2" /\ i <= Len(lines)
    /\ ~Pass2Qualifies(lines[i])
    /\ i' = i + 1
    /\ UNCHANGED <<pc, text, lines, tvars, hvars, cvars, ivars>>

\* second loop, a line that gives a row
Pass2Row ==
    /\ pc = "pass2" /\ i <= Len(lines)
    /\ Pass2Qualifies(lines[i])
    /\ data' = Append(data, RowOf(lines[i], max_sets))
    /\ i' = i + 1
    /\ UNCHANGED <<pc, text, lines, max_sets, hvars, cvars, ivars>>

\* return data, max_sets
TableReturn ==
    /\ pc = "pass2" /\ i > Len(lines)
    /\ pc' = "table_done"
    /\ UNCHANGED <<text, lines, i, tvars, hvars, cvars, ivars>>

NextTable ==
    \/ Pass1Skip \/ Pass1Count \/ Pass2Start
    \/ Pass2Skip \/ Pass2Row \/ TableReturn

SpecTable == InitTable /\ [][NextTable]_vars

\* the stepwise run and the function as index calls it agree
TableAgrees ==
    pc = "table_done" => <<data, max_sets>> = transcribe_text_to_table(text)

(***************************************************************************)
(* extract_workout_title_and_date                                          *)
(***************************************************************************)
Months ==
    {<<"j","a","n">>, <<"f","e","b">>, <<"m","a","r">>, <<"a","p","r">>,
     <<"m","a","y">>, <<"j","u","n">>, <<"j","u","l">>, <<"a","u","g">>,
     <<"s","e","p">>, <<"o","c","t">>, <<"n","o","v">>, <<"d","e","c">>}

WorkoutDefault == <<"W","o","r","k","o","u","t">>

UnknownDate == <<"U","n","k","n","o","w","n"," ","D","a","t","e">>

\* line_lower = line.lower().strip()
LineLower(line) == Strip(Lower(line))

\* the first test of the loop body, on line_lower
IsDateCandidate(ll) ==
    \/ ContainsStr(ll, <<"d","a","t","e">>)
    \/ \E month \in Months : ContainsStr(ll, month)
    \/ AnyDigit(ll)

TitleCandidateAnyDigits(title, ll) == title = <<>> /\ ~Contains(ll, "/")

\* the second test of the loop body, on the title so far and line_lower
IsTitleCandidate(title, ll) == title = <<>> /\ ~AnyDigit(ll) /\ ~Contains(ll, "/")

\* workout_date after the loop body has run on line
DateAfter(date, line) ==
    IF IsDateCandidate(LineLower(line)) THEN Strip(line) ELSE date

\* workout_title after the loop body has run on line
TitleAfter(title, line) ==
    IF IsTitleCandidate(title, LineLower(line)) THEN Strip(line) ELSE title

\* if workout_title and workout_date: break
BothFound(title, date) == title # <<>> /\ date # <<>>

\* the fallbacks and the f-string
LabelOf(title, date) ==
    (IF date = <<>> THEN UnknownDate ELSE date)
        \o <<" ", "-", " ">>
        \o (IF title = <<>> THEN WorkoutDefault ELSE title)

\* the loop from line k on, as a whole: the (title, date) it ends with
RECURSIVE ScanFrom(_, _, _, _)
ScanFrom(ls, k, title, date) ==
    IF k > Len(ls) THEN <<title, date>>
    ELSE LET d == DateAfter(date, ls[k])
             t == TitleAfter(title, ls[k])
         IN  IF BothFound(t, d) THEN <<t, d>> ELSE ScanFrom(ls, k + 1, t, d)

\* extract_workout_title_and_date(text) as called by index
extract_workout_title_and_date(t) ==
    LET r == ScanFrom(Split(t, "\n"), 1, <<>>, <<>>)
    IN  LabelOf(r[1], r[2])

(***************************************************************************)
(* Transcriptions the extractor is run on.                                 *)
(***************************************************************************)
HeaderAlphabet == {"M", "a", "y", "x", "1", "/", " ", "\n"}

MarchLine == <<"M","a","r","c","h"," ","3"," ","2","0","2","4">>
SquatLine3 == <<"S","q","u","a","t",":"," ","8","/","8","/","8">>
MadnessLine == <<"M","a","r","c","h"," ","M","a","d","n","e","s","s">>
DateLine == <<"D","a","t","e",":"," ","3","/","4">>
PushLine == <<"P","u","s","h">>
BlankLine == <<" ", " ">>

HeaderExampleLines ==
    {LegDayLine, MarchLine, SquatLine3, MadnessLine, DateLine, PushLine,
     FractionLine, BlankLine, <<>>}

HeaderTexts ==
    SeqsUpTo(HeaderAlphabet, MaxTextLen)
        \cup {Join(ls, "\n") : ls \in SeqsUpTo(HeaderExampleLines, MaxExampleLines) \ {<<>>}}

(***************************************************************************)
(* SpecHeader: extract_workout_title_and_date, line by line.               *)
(***************************************************************************)
InitHeader ==
    /\ text \in HeaderTexts
    /\ lines = Split(text, "\n")
    /\ pc = "scan"
    /\ i = 1
    /\ IdleTable /\ IdleHeader /\ IdleExcel /\ IdleIndex

\* one run of the loop body that does not break
ScanLine ==
    /\ pc = "scan" /\ i <= Len(lines)
    /\ workout_date' = DateAfter(workout_date, lines[i])
    /\ workout_title' = TitleAfter(workout_title, lines[i])
    /\ ~BothFound(workout_title', workout_date')
    /\ i' = i + 1
    /\ UNCHANGED <<pc, text, lines, label, tvars, cvars, ivars>>

\* one run of the loop body that ends with break
ScanBreak ==
    /\ pc = "scan" /\ i <= Len(lines)
    /\ workout_date' = DateAfter(workout_date, lines[i])
    /\ workout_title' = TitleAfter(workout_title, lines[i])
    /\ BothFound(workout_title', workout_date')
    /\ pc' = "fallback"
    /\ UNCHANGED <<text, lines, i, label, tvars, cvars, ivars>>

\* the loop runs out of lines
ScanEnd ==
    /\ pc = "scan" /\ i > Len(lines)
    /\ pc' = "fallback"
    /\ UNCHANGED <<text, lines, i, hvars, tvars, cvars, ivars>>

\* the fallbacks and the return
HeaderReturn ==
    /\ pc = "fallback"
    /\ label' = LabelOf(workout_title, workout_date)
    /\ pc' = "header_done"
    /\ UNCHANGED <<text, lines, i, workout_title, workout_date, tvars, cvars, ivars>>

NextHeader == ScanLine \/ ScanBreak \/ ScanEnd \/ HeaderReturn

SpecHeader == InitHeader /\ [][NextHeader]_vars

\* the stepwise run and the function as index calls it agree
HeaderAgrees ==
    pc = "header_done" => label = extract_workout_title_and_date(text)

(***************************************************************************)
(* create_excel                                                            *)
(*                                                                         *)
(* A DataFrame is [columns, values]; a worksheet is [cells, merged,        *)
(* widths] with cells a function of <<row, column>>, merged a set of       *)
(* one-row ranges and widths a function of the column.  A cell is          *)
(* [kind, text, style]: kind is the Python type of cell.value, text is     *)
(* str(cell.value), style names the font/fill/border given to it.          *)
(***************************************************************************)
DigitChars == <<"0", "1", "2", "3", "4", "5", "6", "7", "8", "9">>

DigitValue(c) == (CHOOSE k \in 1..10 : DigitChars[k] = c) - 1

\* int(s) for a str of decimal digits
RECURSIVE IntOf(_)
IntOf(s) ==
    IF s = <<>> THEN 0
    ELSE 10 * IntOf(SubSeq(s, 1, Len(s) - 1)) + DigitValue(s[Len(s)])

\* str(n) for an int n >= 0
RECURSIVE DecimalOf(_)
DecimalOf(n) ==
    IF n < 10 THEN <<DigitChars[n + 1]>>
    ELSE DecimalOf(n \div 10) \o <<DigitChars[(n % 10) + 1]>>

\* s.startswith(prefix)
StartsWith(s, prefix) ==
    Len(s) >= Len(prefix) /\ SubSeq(s, 1, Len(prefix)) = prefix

AllDigits(s) == \A k \in 1..Len(s) : s[k] \in Digits

\* the decimal literals float() accepts among texts of digits, '.' and
\* surrounding whitespace: digits, digits '.' digits with either side
\* possibly empty but not both
IsFloatLiteral(s) ==
    LET t == Strip(s)
        p == Split(t, ".")
    IN  /\ Len(p) <= 2
        /\ \A k \in 1..Len(p) : AllDigits(p[k])
        /\ \E k \in 1..Len(p) : p[k] # <<>>

RECURSIVE StripTrailingZeros(_)
StripTrailingZeros(s) ==
    IF s # <<>> /\ s[Len(s)] = "0"
    THEN StripTrailingZeros(SubSeq(s, 1, Len(s) - 1)) ELSE s

\* str(float(s)) for such a literal
FloatText(s) ==
    LET p == Split(Strip(s), ".")
        frac == IF Len(p) = 2 THEN StripTrailingZeros(p[2]) ELSE <<>>
    IN  DecimalOf(IntOf(p[1])) \o <<".">> \o (IF frac = <<>> THEN <<"0">> ELSE frac)

\* the try block of the data loop: int if isdigit, else float, else as is
Coerce(v) ==
    IF IsDigit(v) THEN [kind |-> "int", text |-> DecimalOf(IntOf(v))]
    ELSE IF IsFloatLiteral(v) THEN [kind |-> "float", text |-> FloatText(v)]
    ELSE [kind |-> "str", text |-> v]

\* df, sheet_name, date_workout_type = df_tuple succeeds
Unpacks(df_tuple) == Len(df_tuple) = 3

\* worksheet.cell(row, column) with its value and style set
SetCell(ws, row, col, kind, txt, style) ==
    [ws EXCEPT !.cells =
        [p \in DOMAIN ws.cells \cup {<<row, col>>} |->
            IF p = <<row, col>>
            THEN [kind |-> kind, text |-> txt, style |-> style]
            ELSE ws.cells[p]]]

\* end_column of the title's merge
MergeEndColumn(df) == Len(df.columns) + 1

\* the title cell and its merge
WriteTitle(ws, row, df, title) ==
    [SetCell(ws, row, 1, "str", title, "title") EXCEPT !.merged =
        @ \cup {[row |-> row, first |-> 1, last |-> MergeEndColumn(df)]}]

\* the header loop, columns 1..n
RECURSIVE WriteHeaders(_, _, _, _)
WriteHeaders(ws, row, df, n) ==
    IF n = 0 THEN ws
    ELSE SetCell(WriteHeaders(ws, row, df, n - 1), row, n,
                 "str", df.columns[n], "header")

\* the cell of one data value
DataCell(df, col, v) ==
    IF StartsWith(df.columns[col], <<"S", "e", "t">>)
    THEN Coerce(v) ELSE [kind |-> "str", text |-> v]

\* the inner data loop on one row, columns 1..n
RECURSIVE WriteRow(_, _, _, _, _)
WriteRow(ws, row, df, r, n) ==
    IF n = 0 THEN ws
    ELSE LET c == DataCell(df, n, df.values[r][n])
         IN  SetCell(WriteRow(ws, row, df, r, n - 1), row, n,
                     c.kind, c.text, "data")

\* the outer data loop, rows 1..r of the DataFrame from start on
RECURSIVE WriteRows(_, _, _, _)
WriteRows(ws, start, df, r) ==
    IF r = 0 THEN ws
    ELSE WriteRow(WriteRows(ws, start, df, r - 1), start + r - 1, df, r,
                  Len(df.values[r]))

SpacingTwo(n) == n + 2

\* start_row += len(df) + 3
Spacing(n) == n + 3

SkipTupleAdvancing(st) == [st EXCEPT !.start_row = @ + 3]

\* except ValueError: print; continue
SkipTuple(st) == st

\* the loop body on a tuple that unpacks; st is [start_row, ws]
ComposeTuple(st, df_tuple) ==
    LET df   == df_tuple[1]
        ws1  == WriteTitle(st.ws, st.start_row, df, df_tuple[3])
        ws2  == WriteHeaders(ws1, st.start_row + 1, df, Len(df.columns))
        ws3  == WriteRows(ws2, st.start_row + 2, df, Len(df.values))
    IN  [start_row |-> st.start_row + 2 + Spacing(Len(df.values)), ws |-> ws3]

\* the loop body
ComposeStep(st, df_tuple) ==
    IF Unpacks(df_tuple) THEN ComposeTuple(st, df_tuple) ELSE SkipTuple(st)

\* the loop as a whole
RECURSIVE ComposeAll(_)
ComposeAll(dfs) ==
    IF dfs = <<>> THEN [start_row |-> 1, ws |-> EmptySheet]
    ELSE ComposeStep(ComposeAll(SubSeq(dfs, 1, Len(dfs) - 1)), dfs[Len(dfs)])

SetMax(S) == IF S = {} THEN 0 ELSE CHOOSE m \in S : \A n \in S : n <= m

\* the sheet's max_column: merged cells are cells of the sheet too
MaxColumn(ws) ==
    SetMax({p[2] : p \in DOMAIN ws.cells} \cup {m.last : m \in ws.merged})

\* if cell.value: '' and 0 are falsy
Truthy(c) ==
    /\ c.text # <<>>
    /\ ~(c.kind = "int" /\ c.text = <<"0">>)
    /\ ~(c.kind = "float" /\ c.text = <<"0", ".", "0">>)

\* the width loop: every column of the sheet has a plain cell in some row
\* (the header rows are never merged), so every column gets max_length + 2
AutoSize(ws) ==
    [ws EXCEPT !.widths =
        [c \in 1..MaxColumn(ws) |->
            SetMax({Len(ws.cells[p].text) :
                       p \in {q \in DOMAIN ws.cells :
                                 q[2] = c /\ Truthy(ws.cells[q])}}) + 2]]

\* create_excel(dataframes) as called by index: the sheet that is saved
create_excel(dfs) == AutoSize(ComposeAll(dfs).ws)

(***************************************************************************)
(* Tuples create_excel is run on: DataFrames shaped as index shapes them   *)
(* (line 232), of the shapes in SampleShapes, and tuples of 2 and of 4     *)
(* elements.                                                               *)
(***************************************************************************)
ExerciseColumn == <<"E","x","e","r","c","i","s","e">>

ExtraInfoColumn == <<"E","x","t","r","a"," ","I","n","f","o">>

\* ["Exercise"] + [f"Set {j+1}" for j in range(max_sets)] + ["Extra Info"]
ColumnsFor(n) ==
    <<ExerciseColumn>>
        \o [j \in 1..n |-> <<"S", "e", "t", " ">> \o DecimalOf(j)]
        \o <<ExtraInfoColumn>>

\* pd.DataFrame(table_data, columns=...)
DataFrameOf(rows, n) == [columns |-> ColumnsFor(n), values |-> rows]

\* f"Sheet{i+1}"
SheetName(k) == <<"S", "h", "e", "e", "t">> \o DecimalOf(k)

SampleSets == << <<"1","0">>, <<>>, <<"0","0","7">>, <<"2",".","5","0">>, <<"a","b","c">> >>

SampleRow(r, n) ==
    << <<"a">> \o DecimalOf(r) >>
        \o [j \in 1..n |-> SampleSets[((r + j) % Len(SampleSets)) + 1]]
        \o << <<>> >>

SampleDf(n, r) == DataFrameOf([k \in 1..r |-> SampleRow(k, n)], n)

SampleTitle == UnknownDate \o <<" ", "-", " ">> \o WorkoutDefault

\* <<set columns, rows>> of the sample DataFrames
SampleShapes == {<<0, 0>>, <<0, 1>>, <<1, 2>>, <<2, 1>>, <<3, 2>>, <<2, 0>>}

SampleTuples ==
    {<<SampleDf(sh[1], sh[2]), SheetName(1), SampleTitle>> : sh \in SampleShapes}
    \cup {<<SampleDf(1, 1), SheetName(1)>>,
          <<SampleDf(1, 1), SheetName(1), SampleTitle, SampleTitle>>}

(***************************************************************************)
(* SpecExcel: create_excel, tuple by tuple.                                *)
(***************************************************************************)
InitExcel ==
    /\ dataframes \in SeqsUpTo(SampleTuples, MaxDocs)
    /\ start_row = 1
    /\ worksheet = EmptySheet
    /\ pc = "compose"
    /\ i = 1
    /\ text = <<>> /\ lines = <<>>
    /\ IdleTable /\ IdleHeader /\ IdleIndex

\* the loop body on a tuple that does not unpack
ComposeSkip ==
    /\ pc = "compose" /\ i <= Len(dataframes)
    /\ ~Unpacks(dataframes[i])
    /\ LET st == SkipTuple([start_row |-> start_row, ws |-> worksheet])
       IN  start_row' = st.start_row /\ worksheet' = st.ws
    /\ i' = i + 1
    /\ UNCHANGED <<pc, text, lines, dataframes, tvars, hvars, ivars>>

\* the loop body on a tuple that unpacks
ComposeDocument ==
    /\ pc = "compose" /\ i <= Len(dataframes)
    /\ Unpacks(dataframes[i])
    /\ LET st == ComposeTuple([start_row |-> start_row, ws |-> worksheet],
                              dataframes[i])
       IN  start_row' = st.start_row /\ worksheet' = st.ws
    /\ i' = i + 1
    /\ UNCHANGED <<pc, text, lines, dataframes, tvars, hvars, ivars>>

\* the width loop after the last tuple
AutoSizeColumns ==
    /\ pc = "compose" /\ i > Len(dataframes)
    /\ worksheet' = AutoSize(worksheet)
    /\ pc' = "sized"
    /\ UNCHANGED <<text, lines, i, dataframes, start_row, tvars, hvars, ivars>>

\* the writer is closed and the buffer returned
ExcelReturn ==
    /\ pc = "sized"
    /\ pc' = "excel_done"
    /\ UNCHANGED <<text, lines, i, cvars, tvars, hvars, ivars>>

NextExcel == ComposeSkip \/ ComposeDocument \/ AutoSizeColumns \/ ExcelReturn

SpecExcel == InitExcel /\ [][NextExcel]_vars

\* the stepwise run and the function as index calls it agree
ExcelAgrees == pc = "excel_done" => worksheet = create_excel(dataframes)

(***************************************************************************)
(* index: the request handler.  A response is [status, kind, blocks,       *)
(* error]: kind "xlsx" carries the saved sheet's number of title cells in  *)
(* blocks; kind "json" carries the error (or "none" for the GET message).  *)
(***************************************************************************)
\* the transcriptions the OCR provider answers with
OcrTexts ==
    {<<>>,
     Join(<<LegDayLine, MarchLine, SquatLine3>>, "\n"),
     Join(<<BenchLine, SquatLine>>, "\n"),
     Join(<<PushLine, FractionLine>>, "\n")}

NoFilesNever(fs) == FALSE

\* if not files
NoFiles(fs) == fs = <<>>

\* jsonify({"error": "No files received"}), 400
BadRequest ==
    [status |-> 400, kind |-> "json", blocks |-> 0, error |-> "No files received"]

\* except Exception as e: jsonify({"error": str(e)}), 500
ServerError ==
    [status |-> 500, kind |-> "json", blocks |-> 0, error |-> "exception"]

\* jsonify({"message": "Upload your files"}), 200
UploadMessage ==
    [status |-> 200, kind |-> "json", blocks |-> 0, error |-> "none"]

\* send_file(excel_data, ...): the workbook as saved
Attachment(ws) ==
    [status |-> 200, kind |-> "xlsx",
     blocks |-> Cardinality({p \in DOMAIN ws.cells : ws.cells[p].style = "title"}),
     error |-> "none"]

\* pd.DataFrame raises unless every row has as many fields as columns
ShapeFits(rows, n) == \A r \in 1..Len(rows) : Len(rows[r]) = Len(ColumnsFor(n))

Init ==
    /\ method \in {"GET", "POST"}
    /\ files \in {[k \in 1..n |-> k] : n \in 0..MaxFiles}
    /\ ocr_calls = 0
    /\ staged = 0
    /\ response = NoResponse
    /\ pc = "request"
    /\ i = 1
    /\ text = <<>> /\ lines = <<>>
    /\ IdleTable /\ IdleHeader /\ IdleExcel

\* a GET request
Get ==
    /\ pc = "request" /\ method = "GET"
    /\ response' = UploadMessage
    /\ pc' = "responded"
    /\ UNCHANGED <<text, lines, i, method, files, ocr_calls, staged,
                   tvars, hvars, cvars>>

\* a POST request without files
PostNoFiles ==
    /\ pc = "request" /\ method = "POST"
    /\ NoFiles(files)
    /\ response' = BadRequest
    /\ pc' = "responded"
    /\ UNCHANGED <<text, lines, i, method, files, ocr_calls, staged,
                   tvars, hvars, cvars>>

\* a POST request with files: dataframes = [] and the loop starts
PostFiles ==
    /\ pc = "request" /\ method = "POST"
    /\ ~NoFiles(files)
    /\ dataframes' = <<>>
    /\ i' = 1
    /\ pc' = IF Len(files) = 0 THEN "excel" ELSE "save"
    /\ UNCHANGED <<text, lines, start_row, worksheet, ivars, tvars, hvars>>

\* file.save(file_path)
SaveFile ==
    /\ pc = "save"
    /\ staged' = staged + 1
    /\ pc' = "ocr"
    /\ UNCHANGED <<text, lines, i, method, files, ocr_calls, response,
                   tvars, hvars, cvars>>

\* file.save raises
SaveFault ==
    /\ pc = "save"
    /\ response' = ServerError
    /\ pc' = "responded"
    /\ UNCHANGED <<text, lines, i, method, files, ocr_calls, staged,
                   tvars, hvars, cvars>>

\* extract_text_from_image returns a transcription
ExtractText ==
    /\ pc = "ocr"
    /\ ocr_calls' = ocr_calls + 1
    /\ text' \in OcrTexts
    /\ pc' = "parse"
    /\ UNCHANGED <<lines, i, method, files, staged, response,
                   tvars, hvars, cvars>>

\* client.text_detection raises
OcrFault ==
    /\ pc = "ocr"
    /\ ocr_calls' = ocr_calls + 1
    /\ response' = ServerError
    /\ pc' = "responded"
    /\ UNCHANGED <<text, lines, i, method, files, staged, tvars, hvars, cvars>>

\* the title, the table, the DataFrame and the append, for one file
ParseAndAppend ==
    /\ pc = "parse"
    /\ lines' = Split(text, "\n")
    /\ label' = extract_workout_title_and_date(text)
    /\ data' = transcribe_text_to_table(text)[1]
    /\ max_sets' = transcribe_text_to_table(text)[2]
    /\ IF ShapeFits(data', max_sets')
       THEN /\ dataframes' = Append(dataframes,
                                    <<DataFrameOf(data', max_sets'), SheetName(i), label'>>)
            /\ i' = i + 1
            /\ pc' = IF i + 1 > Len(files) THEN "excel" ELSE "save"
            /\ UNCHANGED response
       ELSE /\ response' = ServerError
            /\ pc' = "responded"
            /\ UNCHANGED <<i, dataframes>>
    /\ UNCHANGED <<text, workout_title, workout_date, start_row, worksheet,
                   method, files, ocr_calls, staged>>

\* create_excel(dataframes) returns the buffer
CreateExcel ==
    /\ pc = "excel"
    /\ worksheet' = create_excel(dataframes)
    /\ start_row' = ComposeAll(dataframes).start_row
    /\ pc' = "send"
    /\ UNCHANGED <<text, lines, i, dataframes, ivars, tvars, hvars>>

\* create_excel raises (the writer fails to save)
ExcelFault ==
    /\ pc = "excel"
    /\ response' = ServerError
    /\ pc' = "responded"
    /\ UNCHANGED <<text, lines, i, method, files, ocr_calls, staged,
                   tvars, hvars, cvars>>

\* send_file
SendFile ==
    /\ pc = "send"
    /\ response' = Attachment(worksheet)
    /\ pc' = "responded"
    /\ UNCHANGED <<text, lines, i, method, files, ocr_calls, staged,
                   tvars, hvars, cvars>>

Next ==
    \/ Get \/ PostNoFiles \/ PostFiles
    \/ SaveFile \/ SaveFault \/ ExtractText \/ OcrFault
    \/ ParseAndAppend \/ CreateExcel \/ ExcelFault \/ SendFile

Spec == Init /\ [][Next]_vars

(***************************************************************************)
(* Claims about transcribe_text_to_table (checked under SpecTable).        *)
(***************************************************************************)
\* a qualifying line as the specification words it: after '.' -> ':' the
\* line holds a '/' and at least one ':' (so that it splits in 2 or more)
SaidToQualify(line) ==
    LET n == Replace(line, ".", ":") IN Contains(n, "/") /\ Contains(n, ":")

QualifyingIndexes == {k \in 1..Len(lines) : SaidToQualify(lines[k])}

\* the index of the r-th qualifying line
NthQualifying(r) ==
    CHOOSE k \in QualifyingIndexes :
        Cardinality({j \in QualifyingIndexes : j <= k}) = r

PiecesCounts == {Len(SetsOf(lines[k])) : k \in QualifyingIndexes}

MaxPieces ==
    IF PiecesCounts = {} THEN 0
    ELSE CHOOSE m \in PiecesCounts : \A n \in PiecesCounts : n <= m

\* C1: every row has exactly max_sets set fields (max_sets + 2 fields in
\* all), and once the first loop is over max_sets is the largest number of
\* numeric-or-empty pieces of any qualifying line, 0 when none qualifies.
C1_UniformWidth ==
    /\ \A r \in 1..Len(data) : Len(data[r]) = max_sets + 2
    /\ pc \in {"pass2", "table_done"} => max_sets = MaxPieces

\* C1 witness: a finished table with two rows, one of them padded.
C1_Witness ==
    /\ pc = "table_done"
    /\ Len(data) >= 2
    /\ max_sets >= 2
    /\ \E k \in QualifyingIndexes : Len(SetsOf(lines[k])) < max_sets

\* C2 (as stated): in a document holding "Bench: 10/12/15 (warmup)" whose
\* lines have at most 3 set pieces each, that line gives the row
\* Bench, 10, 12, 15, warmup with max_sets = 3, and "Squat: 8/8" beside it
\* gives Squat, 8, 8, "", "".
C2_BenchKeepsLastSet ==
    ( /\ pc = "table_done"
      /\ \E k \in 1..Len(lines) : lines[k] = BenchLine
      /\ \A k \in QualifyingIndexes : Len(SetsOf(lines[k])) <= 3 )
    => /\ max_sets = 3
       /\ \E r \in 1..Len(data) :
              data[r] = << <<"B","e","n","c","h">>, <<"1","0">>, <<"1","2">>,
                           <<"1","5">>, <<"w","a","r","m","u","p">> >>
       /\ (\E k \in 1..Len(lines) : lines[k] = SquatLine)
              => \E r \in 1..Len(data) :
                     data[r] = << <<"S","q","u","a","t">>, <<"8">>, <<"8">>,
                                  <<>>, <<>> >>

\* C8: the rows are exactly the qualifying lines, in line order: while the
\* second loop runs there is one row per qualifying line already passed,
\* each built from its line; both loops test the lines the same way.
C8_RowsAreQualifyingLines ==
    /\ \A k \in 1..Len(lines) :
           /\ Pass1Qualifies(lines[k]) <=> SaidToQualify(lines[k])
           /\ Pass2Qualifies(lines[k]) <=> SaidToQualify(lines[k])
    /\ pc = "pass1" => data = <<>>
    /\ pc \in {"pass2", "table_done"} =>
           /\ Len(data) = Cardinality({k \in QualifyingIndexes : k < i})
           /\ \A r \in 1..Len(data) :
                  data[r] = RowOf(lines[NthQualifying(r)], max_sets)

\* C8 witness: a finished table of a text with a line without '/' but
\* with ':', a line with '/' but without ':', and one qualifying line.
C8_Witness ==
    /\ pc = "table_done"
    /\ Len(data) = 1
    /\ \E k \in 1..Len(lines) :
           Contains(Normalize(lines[k]), ":") /\ ~Contains(lines[k], "/")
    /\ \E k \in 1..Len(lines) :
           ~Contains(Normalize(lines[k]), ":") /\ Contains(lines[k], "/")

\* everything after the first ':' of the normalized line
AfterFirstColon(line) == Join(Tail(Parts(line)), ":")

\* C9 (as stated): the exercise is the text before the first ':' and the
\* set pieces are taken from all the text after the first ':'.
C9_SplitsAtFirstColonOnly ==
    pc = "table_done" =>
        \A r \in 1..Len(data) :
            LET line == lines[NthQualifying(r)]
                sets == KeepSets(Split(Strip(AfterFirstColon(line)), "/"))
            IN  /\ data[r][1] = ExerciseOf(line)
                /\ Len(data[r]) >= Len(sets) + 2
                /\ \A j \in 1..Len(sets) : data[r][1 + j] = sets[j]

(***************************************************************************)
(* Claims about extract_workout_title_and_date (under SpecHeader).         *)
(***************************************************************************)
DateIndexes == {k \in 1..Len(lines) : IsDateCandidate(LineLower(lines[k]))}

TitleIndexes ==
    {k \in 1..Len(lines) :
        /\ ~AnyDigit(LineLower(lines[k]))
        /\ ~Contains(LineLower(lines[k]), "/")
        /\ Strip(lines[k]) # <<>>}

First(S) == CHOOSE k \in S : \A j \in S : k <= j

\* C3 (as stated): the label is "<date> - <title>" with the FIRST date
\* candidate line and the first non-empty title candidate line, trimmed,
\* and "Unknown Date" / "Workout" when there is none.
C3_FirstDateFirstTitle ==
    pc = "header_done" =>
        label = (IF DateIndexes = {} THEN UnknownDate
                 ELSE Strip(lines[First(DateIndexes)]))
                \o <<" ", "-", " ">>
                \o (IF TitleIndexes = {} THEN WorkoutDefault
                    ELSE Strip(lines[First(TitleIndexes)]))

Blocks == SelectSeq(SubSeq(dataframes, 1, i - 1), Unpacks)

RowCount(df_tuple) == Len(df_tuple[1].values)

ColCount(df_tuple) == Len(df_tuple[1].columns)

\* 1 + the sum over the blocks before k of (rowCount + 5)
RECURSIVE TitleRowOf(_)
TitleRowOf(k) ==
    IF k = 1 THEN 1 ELSE TitleRowOf(k - 1) + RowCount(Blocks[k - 1]) + 5

LastRowOf(k) == TitleRowOf(k) + 1 + RowCount(Blocks[k])

BlockCells(k) ==
    {<<TitleRowOf(k), 1>>}
        \cup {<<TitleRowOf(k) + 1, c>> : c \in 1..ColCount(Blocks[k])}
        \cup {<<TitleRowOf(k) + 1 + r, c>> :
                  r \in 1..RowCount(Blocks[k]), c \in 1..ColCount(Blocks[k])}

SetColumnCount(df_tuple) ==
    Cardinality({c \in 1..ColCount(df_tuple) :
                    StartsWith(df_tuple[1].columns[c], <<"S", "e", "t">>)})

\* C6 (as stated): each title's merged range spans columns 1 through
\* setColumnCount + 2, the columns of the document's table, and no more.
C6_MergeSpansTable ==
    pc \in {"compose", "sized", "excel_done"} =>
        worksheet.merged =
            {[row |-> TitleRowOf(k), first |-> 1,
              last |-> SetColumnCount(Blocks[k]) + 2] : k \in 1..Len(Blocks)}

\* C7: a tuple that does not unpack is passed over with no cell written
\* and the cursor unmoved; the sheet is at every point the sheet the
\* well-formed tuples alone give, and the loop passes every tuple.
C7_SkipsMalformed ==
    /\ pc = "compose" =>
           [start_row |-> start_row, ws |-> worksheet] = ComposeAll(Blocks)
    /\ pc \in {"sized", "excel_done"} =>
           worksheet = create_excel(SelectSeq(dataframes, Unpacks))
    /\ pc \in {"sized", "excel_done"} => i = Len(dataframes) + 1

\* C7 witness: a finished run over a malformed tuple between two good ones.
C7_Witness ==
    /\ pc = "excel_done"
    /\ Len(dataframes) = 3
    /\ Unpacks(dataframes[1]) /\ RowCount(dataframes[1]) > 0
    /\ ~Unpacks(dataframes[2])
    /\ Unpacks(dataframes[3])

(***************************************************************************)
(* Claims about index (checked under Spec).                                *)
(***************************************************************************)
\* C5: a POST ends in one of three outcomes: 400 "No files received" when
\* there is no file, with no OCR call and nothing staged or parsed; 500
\* with an error and no workbook; or 200 with a workbook holding a block
\* for every uploaded file.  No workbook covers only some of the files.
C5_ThreeOutcomes ==
    /\ (pc = "responded" /\ method = "POST") =>
           \/ /\ response = BadRequest
              /\ files = <<>>
              /\ ocr_calls = 0 /\ staged = 0 /\ dataframes = <<>>
           \/ /\ response = ServerError
              /\ files # <<>>
           \/ /\ response.status = 200 /\ response.kind = "xlsx"
              /\ files # <<>>
              /\ response.blocks = Len(files)
              /\ ocr_calls = Len(files)
              /\ Len(dataframes) = Len(files)
    /\ pc # "responded" => response = NoResponse
    /\ response.kind = "xlsx" => response.blocks = Len(files)

\* C5 witness: a workbook for two files is returned.
C5_Witness ==
    /\ pc = "responded" /\ method = "POST"
    /\ Len(files) = 2
    /\ response.status = 200 /\ response.kind = "xlsx"
    /\ response.blocks = 2

=============================================================================
